---- MODULE Spec2Model ----
(***************************************************************************)
(* Model of fetch_constellation.py: the per-hour fetch orchestration       *)
(* (main, fetch_all, fetch_one), the record pipeline (enumerate_records,   *)
(* flatten_dict, extract_lat_lon, extract_alt_m, parse_time_to_iso,        *)
(* extract_id, standardize_record, build_records) and write_outputs.       *)
(*                                                                         *)
(* Python values are tagged records:                                       *)
(*   None          [t |-> "null"]                                          *)
(*   bool          [t |-> "bool", b |-> BOOLEAN]                           *)
(*   int           [t |-> "int",   m |-> Int, e |-> Nat]   (m * 10^e)      *)
(*   float         [t |-> "float", m |-> Int, e |-> Int]   (m * 10^e)      *)
(*   float nan     [t |-> "nan"]                                           *)
(*   str           [t |-> "str",  s |-> sequence of one-character strings] *)
(*   list          [t |-> "list", items |-> sequence of values]            *)
(*   dict          [t |-> "dict", kv |-> sequence of <<key, value>>]       *)
(* A dict keeps its insertion order, as Python's does; keys are sequences  *)
(* of characters.  Numbers are decimal, kept canonical (the mantissa has   *)
(* no trailing zero), so that equal numbers are equal records.  Binary     *)
(* rounding error of floats and the infinities are outside the model.      *)
(***************************************************************************)
EXTENDS Integers, Sequences, FiniteSets, TLC

----------------------------------------------------------------------------
(* Characters *)

DigitChars == <<"0", "1", "2", "3", "4", "5", "6", "7", "8", "9">>
UpperChars == <<"A", "B", "C", "D", "E", "F", "G", "H", "I", "J", "K", "L", "M",
                "N", "O", "P", "Q", "R", "S", "T", "U", "V", "W", "X", "Y", "Z">>
LowerChars == <<"a", "b", "c", "d", "e", "f", "g", "h", "i", "j", "k", "l", "m",
                "n", "o", "p", "q", "r", "s", "t", "u", "v", "w", "x", "y", "z">>

Range(f) == {f[i] : i \in DOMAIN f}

IsDigit(c) == c \in Range(DigitChars)
DigitVal(c) == (CHOOSE i \in 1..10 : DigitChars[i] = c) - 1
IsSpace(c) == c = " "
\* \w of the regular expressions
IsWordChar(c) == c \in Range(DigitChars) \cup Range(UpperChars) \cup Range(LowerChars) \cup {"_"}

\* str.lower() on one character
LowerChar(c) ==
    IF c \in Range(UpperChars)
    THEN LowerChars[CHOOSE i \in 1..26 : UpperChars[i] = c]
    ELSE c

\* str.lower()
str_lower(s) == [i \in 1..Len(s) |-> LowerChar(s[i])]

RECURSIVE LStrip(_)
LStrip(s) == IF s # <<>> /\ IsSpace(Head(s)) THEN LStrip(Tail(s)) ELSE s
RECURSIVE RStrip(_)
RStrip(s) == IF s # <<>> /\ IsSpace(s[Len(s)]) THEN RStrip(SubSeq(s, 1, Len(s) - 1)) ELSE s
\* str.strip()
str_strip(s) == RStrip(LStrip(s))

\* str.startswith(p)
startswith(s, p) == Len(s) >= Len(p) /\ SubSeq(s, 1, Len(p)) = p

\* str.replace(old, new): left to right, non-overlapping
RECURSIVE str_replace(_, _, _)
str_replace(s, old, new) ==
    IF s = <<>> THEN <<>>
    ELSE IF startswith(s, old)
         THEN new \o str_replace(SubSeq(s, Len(old) + 1, Len(s)), old, new)
         ELSE <<Head(s)>> \o str_replace(Tail(s), old, new)

\* re.sub(r"[^a-z0-9]", "", k)
RECURSIVE StripNonAlnum(_)
StripNonAlnum(s) ==
    IF s = <<>> THEN <<>>
    ELSE IF Head(s) \in Range(LowerChars) \cup Range(DigitChars)
         THEN <<Head(s)>> \o StripNonAlnum(Tail(s))
         ELSE StripNonAlnum(Tail(s))

----------------------------------------------------------------------------
(* Numbers *)

None == [t |-> "null"]
NaN == [t |-> "nan"]
PyTrue == [t |-> "bool", b |-> TRUE]
PyFalse == [t |-> "bool", b |-> FALSE]
Str(s) == [t |-> "str", s |-> s]
List(items) == [t |-> "list", items |-> items]
Dict(kv) == [t |-> "dict", kv |-> kv]

RECURSIVE Pow10(_)
Pow10(k) == IF k = 0 THEN 1 ELSE 10 * Pow10(k - 1)

Abs(n) == IF n < 0 THEN -n ELSE n
Min(a, b) == IF a < b THEN a ELSE b
Max(a, b) == IF a > b THEN a ELSE b

\* number of decimal digits of a mantissa (0 has none)
RECURSIVE NumDigits(_)
NumDigits(m) == IF m = 0 THEN 0 ELSE 1 + NumDigits(Abs(m) \div 10)

\* the canonical mantissa and exponent of m * 10^e
RECURSIVE Canon(_, _)
Canon(m, e) ==
    IF m = 0 THEN <<0, 0>>
    ELSE IF m % 10 = 0 THEN Canon(m \div 10, e + 1)
    ELSE <<m, e>>

Number(t, c) == [t |-> t, m |-> c[1], e |-> c[2]]
Float(m, e) == Number("float", Canon(m, e))
PyInt(m, e) == Number("int", Canon(m, e))

IsNumber(v) == v.t \in {"int", "float"}

\* a < b for two numbers (int or float, not nan), by sign, then by
\* magnitude, then with the mantissas brought to one exponent
Sign(m) == IF m < 0 THEN -1 ELSE IF m = 0 THEN 0 ELSE 1
Magnitude(a) == NumDigits(a.m) + a.e
AbsLt(a, b) ==
    IF Magnitude(a) # Magnitude(b) THEN Magnitude(a) < Magnitude(b)
    ELSE Abs(a.m) * Pow10(a.e - Min(a.e, b.e)) < Abs(b.m) * Pow10(b.e - Min(a.e, b.e))
NumLt(a, b) ==
    IF Sign(a.m) # Sign(b.m) THEN Sign(a.m) < Sign(b.m)
    ELSE IF Sign(a.m) = 0 THEN FALSE
    ELSE IF Sign(a.m) = 1 THEN AbsLt(a, b)
    ELSE AbsLt(b, a)

\* Python's a < b and a > b on floats: every comparison with nan is False
PyLt(a, b) == IF a.t = "nan" \/ b.t = "nan" THEN FALSE ELSE NumLt(a, b)
PyGt(a, b) == PyLt(b, a)

\* Python's == on two numbers
PyNumEq(a, b) == a.t # "nan" /\ b.t # "nan" /\ a.m = b.m /\ a.e = b.e

\* float(value) of an int: OverflowError beyond the float range (about
\* 1.8e308; taken here as 10^309 and more)
IntOverflows(v) == v.t = "int" /\ NumDigits(v.m) + v.e > 309

\* x / k and x * k on floats, k a power of ten
FloatScale(x, k) == IF x.t = "nan" THEN NaN ELSE Float(x.m, x.e + k)

\* round(x, 6): the nearest multiple of 10^-6, a tie going to the even one
\* (a float that is a tie exactly, such as 2^-7, is rounded so; a decimal
\* literal that only looks like a tie is rounded by its binary value,
\* which is outside the model)
RoundHalfEven(m, s) ==
    IF 2 * (m % s) > s \/ (2 * (m % s) = s /\ (m \div s) % 2 = 1)
    THEN (m \div s) + 1
    ELSE m \div s
round6(x) ==
    IF x.t = "nan" THEN NaN
    ELSE IF x.e >= -6 THEN Float(x.m, x.e)
    ELSE IF (-6) - x.e >= 10 THEN Float(0, 0)
    ELSE Float(RoundHalfEven(x.m, Pow10((-6) - x.e)), -6)

----------------------------------------------------------------------------
(* The number pattern [-+]?\d+(?:\.\d+)? and float() of text *)

\* the index after the longest run of digits of s that starts at i
RECURSIVE DigitRun(_, _)
DigitRun(s, i) == IF i <= Len(s) /\ IsDigit(s[i]) THEN DigitRun(s, i + 1) ELSE i

\* the index after a match of the number pattern at i, 0 when none
SignEnd(s, i) == IF i <= Len(s) /\ s[i] \in {"-", "+"} THEN i + 1 ELSE i
FracEnd(s, b) == IF b <= Len(s) /\ s[b] = "." THEN DigitRun(s, b + 1) ELSE b
NumEndFrom(s, a, b) ==
    IF b = a THEN 0
    ELSE IF FracEnd(s, b) > b + 1 THEN FracEnd(s, b) ELSE b
NumEnd(s, i) == NumEndFrom(s, SignEnd(s, i), DigitRun(s, SignEnd(s, i)))

RECURSIVE DigitsValue(_, _)
DigitsValue(s, acc) ==
    IF s = <<>> THEN acc ELSE DigitsValue(Tail(s), acc * 10 + DigitVal(Head(s)))

\* a digit text without its trailing zeros
RECURSIVE RStripZeros(_)
RStripZeros(s) ==
    IF s # <<>> /\ s[Len(s)] = "0" THEN RStripZeros(SubSeq(s, 1, Len(s) - 1)) ELSE s

\* float(text) of a text the number pattern matches whole: the digits
\* without their trailing zeros, times the power of ten of their place
Unsigned(s) == IF s # <<>> /\ s[1] \in {"-", "+"} THEN Tail(s) ELSE s
IntPart(body) == SubSeq(body, 1, DigitRun(body, 1) - 1)
FracPart(body) ==
    IF DigitRun(body, 1) <= Len(body)
    THEN SubSeq(body, DigitRun(body, 1) + 1, Len(body))
    ELSE <<>>
WithSign(s, mag) == IF s[1] = "-" THEN -mag ELSE mag
FloatOfDigits(s, intpart, ds) == Float(WithSign(s, DigitsValue(ds, 0)), Len(intpart) - Len(ds))
FloatOfBody(s, body) ==
    FloatOfDigits(s, IntPart(body), RStripZeros(IntPart(body) \o FracPart(body)))
FloatOfMatch(s) == FloatOfBody(s, Unsigned(s))

\* re.search of the number pattern: the leftmost start of a match, 0 when none
RECURSIVE NumSearch(_, _)
NumSearch(s, i) ==
    IF i > Len(s) THEN 0
    ELSE IF NumEnd(s, i) # 0 THEN i
    ELSE NumSearch(s, i + 1)

\* re.fullmatch of the number pattern
NumFullMatch(s) == s # <<>> /\ NumEnd(s, 1) = Len(s) + 1

Fail == [t |-> "raise"]

\* the unsigned decimal texts float() reads: digits, "." and digits, with a
\* digit on one side of the "." at least (exponents and inf are left out)
FloatLiteralEnds(u, a, b) == b = Len(u) + 1 /\ (a > 1 \/ b > a + 1)
FloatLiteral(u) == FloatLiteralEnds(u, DigitRun(u, 1), FracEnd(u, DigitRun(u, 1)))

\* float(text) of a stripped text
FloatOfText(s) ==
    IF FloatLiteral(Unsigned(s)) THEN FloatOfMatch(s)
    ELSE IF str_lower(Unsigned(s)) = <<"n", "a", "n">> THEN NaN
    ELSE Fail

\* float(x): a number converts (a bool as 0 or 1, an int beyond the float
\* range raises), a text converts when it is a decimal literal or nan,
\* anything else raises
py_float(v) ==
    CASE v.t = "bool" -> Float(IF v.b THEN 1 ELSE 0, 0)
      [] v.t = "int" -> IF IntOverflows(v) THEN Fail ELSE Float(v.m, v.e)
      [] v.t = "float" -> v
      [] v.t = "nan" -> NaN
      [] v.t = "str" -> FloatOfText(str_strip(v.s))
      [] OTHER -> Fail

\* except Exception: return None
NoneIfFail(f) == IF f = Fail THEN None ELSE f

\* float(m.group(0)) of the match re.search finds at i, None when it finds none
FloatOfSearch(s, i) ==
    IF i = 0 THEN None ELSE FloatOfMatch(SubSeq(s, i, NumEnd(s, i) - 1))

coerce_float(value) ==
    CASE value.t = "null" -> None
      [] value.t = "bool" -> None
      [] value.t \in {"int", "float", "nan"} -> NoneIfFail(py_float(value))
      [] value.t = "str" -> FloatOfSearch(str_strip(value.s), NumSearch(str_strip(value.s), 1))
      [] OTHER -> None

----------------------------------------------------------------------------
(* Dicts in insertion order *)

HasKey(d, k) == \E i \in DOMAIN d : d[i][1] = k
KeyIndex(d, k) == CHOOSE i \in DOMAIN d : d[i][1] = k
\* dict.get(k)
Get(d, k) == IF HasKey(d, k) THEN d[KeyIndex(d, k)][2] ELSE None
\* d[k] = v: an existing key keeps its place
Put(d, k, v) ==
    IF HasKey(d, k)
    THEN [d EXCEPT ![KeyIndex(d, k)] = <<k, v>>]
    ELSE Append(d, <<k, v>>)

\* k in flat and flat[k] is not None
Present(flat, k) == HasKey(flat, k) /\ Get(flat, k) # None

\* the first key of keys that is present in flat, <<>> when none is
RECURSIVE FirstPresent(_, _)
FirstPresent(flat, keys) ==
    IF keys = <<>> THEN <<>>
    ELSE IF Present(flat, Head(keys)) THEN Head(keys)
    ELSE FirstPresent(flat, Tail(keys))

----------------------------------------------------------------------------
(* normalize_key and flatten_dict *)

\* the synonyms normalize_key replaces, in the order of its replace calls
synonyms ==
    << << <<"l","o","n","g","i","t","u","d","e">>, <<"l","o","n">> >>,
       << <<"l","o","n","g">>, <<"l","o","n">> >>,
       << <<"l","n","g">>, <<"l","o","n">> >>,
       << <<"l","a","t","i","t","u","d","e">>, <<"l","a","t">> >>,
       << <<"a","l","t","i","t","u","d","e">>, <<"a","l","t">> >>,
       << <<"u","p","d","a","t","e","d","a","t">>, <<"t","i","m","e">> >>,
       << <<"l","a","s","t","s","e","e","n">>, <<"t","i","m","e">> >>,
       << <<"f","i","x","t","i","m","e">>, <<"t","i","m","e">> >>,
       << <<"t","i","m","e","s","t","a","m","p","m","s">>, <<"t","i","m","e","s","t","a","m","p">> >>,
       << <<"t","i","m","e","u","n","i","x">>, <<"t","i","m","e","s","t","a","m","p">> >> >>

\* the chain of replace calls from the i-th on
RECURSIVE ReplaceAll(_, _)
ReplaceAll(k, i) ==
    IF i > Len(synonyms) THEN k
    ELSE ReplaceAll(str_replace(k, synonyms[i][1], synonyms[i][2]), i + 1)

normalize_key(name) == ReplaceAll(StripNonAlnum(str_lower(str_strip(name))), 1)

\* f"{prefix}.{k}" if prefix else str(k)
JoinKey(prefix, k) == IF prefix # <<>> THEN prefix \o <<".">> \o k ELSE k

\* flatten_dict(d, prefix, out) for a dict given by its items
RECURSIVE FlattenItems(_, _, _)
RECURSIVE FlattenItem(_, _, _)
\* one pass of the loop: key is the item's full key
FlattenItem(key, v, out) ==
    IF v.t = "dict" THEN FlattenItems(v.kv, key, out)
    ELSE Put(out, normalize_key(key), v)
FlattenItems(kv, prefix, out) ==
    IF kv = <<>> THEN out
    ELSE FlattenItems(Tail(kv), prefix,
                      FlattenItem(JoinKey(prefix, Head(kv)[1]), Head(kv)[2], out))

\* flatten_dict(d): a value that is no dict flattens to the empty mapping
flatten_dict(d) == IF d.t = "dict" THEN FlattenItems(d.kv, <<>>, <<>>) ELSE <<>>

\* keys the code names
K_LAT == <<"l", "a", "t">>
K_LON == <<"l", "o", "n">>
K_ALTKM == <<"a", "l", "t", "k", "m">>
K_LATE7 == <<"l", "a", "t", "e", "7">>
K_LONE7 == <<"l", "o", "n", "e", "7">>
K_LNGE7 == <<"l", "n", "g", "e", "7">>

----------------------------------------------------------------------------
(* enumerate_records *)

\* one element of a decoded list: the raw records it yields (none or one)
\* record["altkm"] = float(alt_km_val), unless it is None or does not convert
WithAltKm(record, alt_km_val) ==
    IF alt_km_val = None \/ py_float(alt_km_val) = Fail THEN record
    ELSE Append(record, <<K_ALTKM, py_float(alt_km_val)>>)

\* the [lat, lon, alt_km?] heuristic on a list of two elements or more
PositionalRecord(lat_num, lon_num, alt_km_val) ==
    IF lat_num = Fail \/ lon_num = Fail THEN <<>>
    ELSE << <<None, Dict(WithAltKm(<< <<K_LAT, lat_num>>, <<K_LON, lon_num>> >>, alt_km_val))>> >>

ListElementRecords(rec) ==
    IF rec.t = "dict" THEN << <<None, rec>> >>
    ELSE IF rec.t = "list" /\ Len(rec.items) >= 2
    THEN PositionalRecord(py_float(rec.items[1]), py_float(rec.items[2]),
                          IF Len(rec.items) >= 3 THEN rec.items[3] ELSE None)
    ELSE <<>>

RECURSIVE EnumerateList(_)
EnumerateList(items) ==
    IF items = <<>> THEN <<>>
    ELSE ListElementRecords(Head(items)) \o EnumerateList(Tail(items))

\* [v for v in obj.values() if isinstance(v, list) and (not v or isinstance(v[0], dict))]
IsCandidate(v) == v.t = "list" /\ (v.items = <<>> \/ v.items[1].t = "dict")
RECURSIVE candidate_lists(_)
candidate_lists(kv) ==
    IF kv = <<>> THEN <<>>
    ELSE (IF IsCandidate(Head(kv)[2]) THEN <<Head(kv)[2]>> ELSE <<>>)
         \o candidate_lists(Tail(kv))

\* max(candidate_lists, key=len): the first of the longest
LongestFirst(ls) ==
    ls[CHOOSE i \in DOMAIN ls :
          /\ \A j \in DOMAIN ls : Len(ls[j].items) <= Len(ls[i].items)
          /\ \A j \in 1..(i - 1) : Len(ls[j].items) < Len(ls[i].items)]

\* for rec in best: yield None, rec
YieldAll(best) == [i \in 1..Len(best.items) |-> <<None, best.items[i]>>]

\* the three rules for an object, cands being its candidate lists
EnumerateDict(obj, cands) ==
    IF cands # <<>> THEN YieldAll(LongestFirst(cands))
    ELSE IF \A i \in DOMAIN obj.kv : obj.kv[i][2].t = "dict"
    THEN [i \in 1..Len(obj.kv) |-> <<Str(obj.kv[i][1]), obj.kv[i][2]>>]
    ELSE << <<None, obj>> >>

\* enumerate_records(obj): the sequence of <<parent key or None, raw record>>
enumerate_records(obj) ==
    CASE obj.t = "null" -> <<>>
      [] obj.t = "list" -> EnumerateList(obj.items)
      [] obj.t = "dict" -> EnumerateDict(obj, candidate_lists(obj.kv))
      [] OTHER -> <<>>

----------------------------------------------------------------------------
(* extract_lat_lon *)

lat_keys == <<<<"l", "a", "t">>, <<"l", "a", "t", "e", "7">>, <<"l", "a", "t", "i", "t", "u", "d", "e">>, <<"g", "p", "s", "l", "a", "t">>, <<"p", "o", "s", "i", "t", "i", "o", "n", "l", "a", "t">>>>
lon_keys == <<<<"l", "o", "n">>, <<"l", "n", "g", "e", "7">>, <<"l", "o", "n", "e", "7">>, <<"l", "o", "n", "g", "i", "t", "u", "d", "e">>, <<"g", "p", "s", "l", "o", "n">>, <<"p", "o", "s", "i", "t", "i", "o", "n", "l", "o", "n">>>>

\* an E7 field: coerce_float of it, divided by 1e7 when it converts
DivE7(c) == IF c # None THEN FloatScale(c, -7) ELSE None
E7Value(flat, k) == DivE7(coerce_float(Get(flat, k)))

\* the loop over the plain-named candidates: coerce_float of the first present one
CoerceAt(flat, k) == IF k = <<>> THEN None ELSE coerce_float(Get(flat, k))
FirstCandidate(flat, ks) == CoerceAt(flat, FirstPresent(flat, ks))

\* the latitude before the range check (lines 173-176 and 185-189)
\* "if k in flat and flat[k] is not None: x = ..." on a variable that holds x
E7Assign(flat, k, x) == IF Present(flat, k) THEN E7Value(flat, k) ELSE x
\* "if x is None: for k in ks: ..."
OrCandidate(x, flat, ks) == IF x = None THEN FirstCandidate(flat, ks) ELSE x

ResolveLat(flat) == OrCandidate(E7Assign(flat, K_LATE7, None), flat, lat_keys)

\* the longitude before the range check (lines 177-184 and 190-194)
ResolveLon(flat) ==
    OrCandidate(E7Assign(flat, K_LNGE7, E7Assign(flat, K_LONE7, None)), flat, lon_keys)

\* -90 > lat or lat > 90
LatOutOfRange(lat) == PyGt(Float(-90, 0), lat) \/ PyGt(lat, Float(90, 0))
\* -180 > lon or lon > 180
LonOutOfRange(lon) == PyGt(Float(-180, 0), lon) \/ PyGt(lon, Float(180, 0))

\* extract_lat_lon(flat): <<lat, lon>>, each a float or None
\* lines 196-198: a value out of its range becomes None
CheckLat(lat) == IF lat # None /\ LatOutOfRange(lat) THEN None ELSE lat
CheckLon(lon) == IF lon # None /\ LonOutOfRange(lon) THEN None ELSE lon

extract_lat_lon(flat) == <<CheckLat(ResolveLat(flat)), CheckLon(ResolveLon(flat))>>

----------------------------------------------------------------------------
(* extract_alt_m *)

meter_keys == <<<<"a", "l", "t", "m">>, <<"a", "l", "t", "i", "t", "u", "d", "e", "m">>, <<"a", "l", "t", "i", "t", "u", "d", "e">>, <<"a", "l", "t">>, <<"m", "s", "l">>, <<"b", "a", "r", "o", "a", "l", "t", "i", "t", "u", "d", "e">>, <<"e", "l", "e", "v", "a", "t", "i", "o", "n">>, <<"h", "e", "i", "g", "h", "t">>, <<"a", "g", "l">>>>
feet_keys == <<<<"a", "l", "t", "f", "t">>, <<"a", "l", "t", "i", "t", "u", "d", "e", "f", "t">>, <<"a", "l", "t", "f", "e", "e", "t">>, <<"f", "e", "e", "t">>, <<"a", "l", "t", "f", "t", "m", "s", "l">>>>
\* the alternatives of the unit pattern, in the pattern's order
unit_tokens == <<<<"m">>, <<"m", "e", "t", "e", "r">>, <<"m", "e", "t", "e", "r", "s">>, <<"k", "m">>, <<"k", "i", "l", "o", "m", "e", "t", "e", "r">>, <<"k", "i", "l", "o", "m", "e", "t", "e", "r", "s">>, <<"f", "t">>, <<"f", "e", "e", "t">>>>

\* feet * 0.3048
feet_to_meters(feet) == IF feet.t = "nan" THEN NaN ELSE Float(feet.m * 3048, feet.e - 4)

\* the first key of keys that is present in flat and whose value converts
RECURSIVE FirstConvertible(_, _)
FirstConvertible(flat, ks) ==
    IF ks = <<>> THEN <<>>
    ELSE IF Present(flat, Head(ks)) /\ coerce_float(Get(flat, Head(ks))) # None THEN Head(ks)
    ELSE FirstConvertible(flat, Tail(ks))

\* index after the white space of s from i on
RECURSIVE SkipSpace(_, _)
SkipSpace(s, i) == IF i <= Len(s) /\ IsSpace(s[i]) THEN SkipSpace(s, i + 1) ELSE i

\* (m|meter|...|feet)\b at i: the first alternative, in order, that is
\* there and ends at a word boundary; <<>> when none
\* u is at i of s, ends before j and a word boundary follows
UnitEndsAt(s, i, u, j) ==
    /\ j - 1 <= Len(s)
    /\ SubSeq(s, i, j - 1) = u
    /\ (j > Len(s) \/ ~IsWordChar(s[j]))
RECURSIVE UnitAt(_, _, _)
UnitAt(s, i, alts) ==
    IF alts = <<>> THEN <<>>
    ELSE IF UnitEndsAt(s, i, Head(alts), i + Len(Head(alts))) THEN Head(alts)
    ELSE UnitAt(s, i, Tail(alts))

\* re.match(r"([-+]?\d+(?:\.\d+)?)\s*(m|...|feet)\b", s): <<num, unit>>, or <<>>.
\* Where the number with its fraction is followed by no unit, the pattern
\* backs off to the number without the fraction, which a "." follows: no unit either.
Groups(s, n, u) == IF u = <<>> THEN <<>> ELSE <<FloatOfMatch(SubSeq(s, 1, n - 1)), u>>
MatchFrom(s, n) ==
    Groups(s, n, IF n = 0 THEN <<>> ELSE UnitAt(s, SkipSpace(s, n), unit_tokens))
UnitMatch(s) == MatchFrom(s, NumEnd(s, 1))

\* lines 234-240: the conversion the matched unit gets
UnitConvert(num, unit) ==
    IF startswith(unit, <<"m">>) /\ unit # <<"m","e","t","e","r","s">> THEN num
    ELSE IF startswith(unit, <<"k","m">>) THEN FloatScale(num, 3)
    ELSE IF startswith(unit, <<"m">>) THEN num
    ELSE feet_to_meters(num)

\* the match of the pattern on one value: only a string is tried
ValueMatch(v) == IF v.t = "str" THEN UnitMatch(str_lower(str_strip(v.s))) ELSE <<>>
\* the loop over flat.items(): the match of the first value the pattern
\* matches, <<>> when it matches none
RECURSIVE FirstUnitMatch(_)
RECURSIVE MatchOrNext(_, _)
MatchOrNext(mt, rest) == IF mt # <<>> THEN mt ELSE FirstUnitMatch(rest)
FirstUnitMatch(kv) ==
    IF kv = <<>> THEN <<>> ELSE MatchOrNext(ValueMatch(Head(kv)[2]), Tail(kv))

\* what the loop returns for that match
ConvertMatch(mt) == IF mt = <<>> THEN None ELSE UnitConvert(mt[1], mt[2])
StringScan(kv) == ConvertMatch(FirstUnitMatch(kv))

\* extract_alt_m(flat): a float or None
\* the four sources in their order: km is the converted altkm or None,
\* mk and fk the first convertible meter and feet key or <<>>
AltFrom(flat, km, mk, fk) ==
    IF km # None THEN FloatScale(km, 3)
    ELSE IF mk # <<>> THEN coerce_float(Get(flat, mk))
    ELSE IF fk # <<>> THEN feet_to_meters(coerce_float(Get(flat, fk)))
    ELSE StringScan(flat)

extract_alt_m(flat) ==
    AltFrom(flat,
            IF Present(flat, K_ALTKM) THEN coerce_float(Get(flat, K_ALTKM)) ELSE None,
            FirstConvertible(flat, meter_keys),
            FirstConvertible(flat, feet_keys))

----------------------------------------------------------------------------
(* str() of a value, for extract_id *)

RECURSIVE DigitsOf(_)
\* the decimal digits of a positive integer
DigitsOf(n) == IF n < 10 THEN <<DigitChars[n + 1]>> ELSE DigitsOf(n \div 10) \o <<DigitChars[(n % 10) + 1]>>

Zeros(k) == [i \in 1..k |-> "0"]

\* str(int)
IntStr(v) ==
    IF v.m = 0 THEN <<"0">>
    ELSE (IF v.m < 0 THEN <<"-">> ELSE <<>>) \o DigitsOf(Abs(v.m)) \o Zeros(v.e)

\* repr(float): plain notation while the decimal point lies within -4..16
\* digits of the first digit, the exponent notation beyond
PlainStr(ds, decpt) ==
    IF decpt <= 0 THEN <<"0", ".">> \o Zeros(-decpt) \o ds
    ELSE IF decpt >= Len(ds) THEN ds \o Zeros(decpt - Len(ds)) \o <<".", "0">>
    ELSE SubSeq(ds, 1, decpt) \o <<".">> \o SubSeq(ds, decpt + 1, Len(ds))
ExpStr(ex, exds) ==
    <<"e", IF ex < 0 THEN "-" ELSE "+">> \o (IF Len(exds) < 2 THEN <<"0">> ELSE <<>>) \o exds
SciStr(ds, ex) ==
    <<ds[1]>> \o (IF Len(ds) > 1 THEN <<".">> \o SubSeq(ds, 2, Len(ds)) ELSE <<>>)
    \o ExpStr(ex, DigitsOf(Abs(ex)))
DigitsStr(ds, decpt) ==
    IF -4 < decpt /\ decpt <= 16 THEN PlainStr(ds, decpt) ELSE SciStr(ds, decpt - 1)
MagnitudeStr(v, ds) == DigitsStr(ds, Len(ds) + v.e)
FloatStr(v) ==
    IF v.m = 0 THEN <<"0", ".", "0">>
    ELSE (IF v.m < 0 THEN <<"-">> ELSE <<>>) \o MagnitudeStr(v, DigitsOf(Abs(v.m)))

RECURSIVE py_repr(_)
RECURSIVE ReprItems(_)
RECURSIVE ReprPairs(_)
\* repr(value)
py_repr(v) ==
    CASE v.t = "null" -> <<"N", "o", "n", "e">>
      [] v.t = "bool" -> IF v.b THEN <<"T", "r", "u", "e">> ELSE <<"F", "a", "l", "s", "e">>
      [] v.t = "int" -> IntStr(v)
      [] v.t = "float" -> FloatStr(v)
      [] v.t = "nan" -> <<"n", "a", "n">>
      [] v.t = "str" -> <<"'">> \o v.s \o <<"'">>
      [] v.t = "list" -> <<"[">> \o ReprItems(v.items) \o <<"]">>
      [] v.t = "dict" -> <<"{">> \o ReprPairs(v.kv) \o <<"}">>
ReprItems(items) ==
    IF items = <<>> THEN <<>>
    ELSE py_repr(Head(items))
         \o (IF Len(items) > 1 THEN <<",", " ">> ELSE <<>>) \o ReprItems(Tail(items))
ReprPairs(kv) ==
    IF kv = <<>> THEN <<>>
    ELSE <<"'">> \o Head(kv)[1] \o <<"'", ":", " ">> \o py_repr(Head(kv)[2])
         \o (IF Len(kv) > 1 THEN <<",", " ">> ELSE <<>>) \o ReprPairs(Tail(kv))

\* str(value)
py_str(v) == IF v.t = "str" THEN v.s ELSE py_repr(v)

\* bool(value)
Truthy(v) ==
    CASE v.t = "null" -> FALSE
      [] v.t = "bool" -> v.b
      [] v.t \in {"int", "float"} -> v.m # 0
      [] v.t = "nan" -> TRUE
      [] v.t = "str" -> v.s # <<>>
      [] v.t = "list" -> v.items # <<>>
      [] v.t = "dict" -> v.kv # <<>>

----------------------------------------------------------------------------
(* extract_id *)

id_candidates == <<<<"i", "d">>, <<"b", "a", "l", "l", "o", "o", "n", "i", "d">>, <<"f", "l", "i", "g", "h", "t", "i", "d">>, <<"d", "e", "v", "i", "c", "e", "i", "d">>, <<"s", "e", "r", "i", "a", "l">>, <<"n", "a", "m", "e">>, <<"i", "d", "e", "n", "t", "i", "f", "i", "e", "r">>, <<"u", "u", "i", "d">>>>

\* the first candidate key that is in flat with a truthy value, <<>> when none
RECURSIVE FirstTruthy(_, _)
FirstTruthy(flat, ks) ==
    IF ks = <<>> THEN <<>>
    ELSE IF HasKey(flat, Head(ks)) /\ Truthy(Get(flat, Head(ks))) THEN Head(ks)
    ELSE FirstTruthy(flat, Tail(ks))

\* extract_id(parent_key, flat): a str or None
\* k is the first candidate key with a truthy value, <<>> when there is none
IdFrom(parent_key, flat, k) ==
    IF k # <<>> THEN Str(py_str(Get(flat, k)))
    ELSE IF parent_key # None /\ Truthy(parent_key) THEN Str(py_str(parent_key))
    ELSE None

extract_id(parent_key, flat) == IdFrom(parent_key, flat, FirstTruthy(flat, id_candidates))

----------------------------------------------------------------------------
(* parse_time_to_iso *)

time_candidates == <<<<"t", "i", "m", "e">>, <<"t", "i", "m", "e", "s", "t", "a", "m", "p">>, <<"t", "s">>, <<"d", "a", "t", "e", "t", "i", "m", "e">>, <<"d", "a", "t", "e">>, <<"l", "a", "s", "t", "s", "e", "e", "n">>, <<"u", "p", "d", "a", "t", "e", "d">>, <<"u", "p", "d", "a", "t", "e", "d", "a", "t">>, <<"f", "i", "x", "t", "i", "m", "e">>>>

\* An ISO-8601 text is modelled by the instant it names, in seconds since
\* the epoch to the microsecond: isoformat() of two datetimes in UTC gives
\* one text exactly when the datetimes are equal.
Iso(sec) == [t |-> "iso", at |-> round6(sec)]

\* datetime.fromtimestamp(sec, tz=utc).isoformat(): raises for nan and for
\* an instant outside the years 1..9999 (the limits here to three digits)
fromtimestamp_iso(sec) ==
    IF sec.t = "nan" THEN Fail
    ELSE IF NumLt(sec, Float(-621, 8)) \/ NumLt(Float(253, 9), sec) THEN Fail
    ELSE Iso(sec)

\* the seconds-or-milliseconds heuristic of lines 259-262 and 270-273
SecondsOf(sec) ==
    IF PyGt(sec, Float(1, 12)) THEN FloatScale(sec, -3)
    ELSE IF PyGt(sec, Float(1, 10)) THEN FloatScale(sec, -3)
    ELSE sec

\* dtparser.parse(val), made UTC when it carries no zone, as an instant:
\* the library's result for the date texts of the model, Fail (it raises)
\* for any other text
dateutil_parse(s) ==
    CASE s = <<"2", "0", "2", "3", "-", "1", "1", "-", "1", "4", "T", "2", "2", ":", "1", "3", ":", "2", "0", "Z">> -> Float(17, 8)
      [] s = <<"2", "0", "2", "3", "-", "1", "1", "-", "1", "4", " ", "2", "2", ":", "1", "3", ":", "2", "0">> -> Float(17, 8)
      [] s = <<"2", "0", "2", "3", "-", "1", "1", "-", "1", "4", "T", "2", "3", ":", "1", "3", ":", "2", "0", "+", "0", "1", ":", "0", "0">> -> Float(17, 8)
      [] s = <<"2", "0", "2", "3", "-", "1", "1", "-", "1", "4", "T", "2", "3", ":", "1", "3", ":", "2", "0", "Z">> -> Float(17000036, 2)
      [] OTHER -> Fail

\* parse_time_to_iso(flat): an Iso or None
\* the timestamp branch: float(val), the heuristic, fromtimestamp
TimestampIso(num) == IF num = Fail THEN Fail ELSE fromtimestamp_iso(SecondsOf(num))
\* the text branch that is no number: the date parser
ParsedIso(parsed) == IF parsed = Fail THEN Fail ELSE Iso(parsed)

\* the body of the try for the value of the first present candidate
TimeOf(val) ==
    CASE val.t \in {"int", "float", "nan"} -> TimestampIso(py_float(val))
      [] val.t = "str" ->
            IF NumFullMatch(str_strip(val.s)) THEN TimestampIso(py_float(val))
            ELSE ParsedIso(dateutil_parse(val.s))
      [] OTHER -> None

TimeAt(flat, k) == IF k = <<>> THEN None ELSE NoneIfFail(TimeOf(Get(flat, k)))

parse_time_to_iso(flat) == TimeAt(flat, FirstPresent(flat, time_candidates))

----------------------------------------------------------------------------
(* standardize_record and build_records *)

\* datetime.now(utc) - timedelta(hours=source_hour), cut to the hour; the
\* clock is read as nowHour, the whole hours since the epoch
approx_time(nowHour, source_hour) == Iso(Float((nowHour - source_hour) * 36, 2))

\* standardize_record(parent_key, rec, source_hour, raw_index), the clock
\* reading nowHour: a record or None
\* lines 305-307: the parsed time, or the approximation when there is none
TimeOrApprox(time_iso, nowHour, source_hour) ==
    IF time_iso = None THEN approx_time(nowHour, source_hour) ELSE time_iso

\* standardize_record after flatten_dict and extract_lat_lon
Standardize(parent_key, flat, ll, source_hour, raw_index, nowHour) ==
    IF ll[1] = None \/ ll[2] = None THEN None
    ELSE [t |-> "record",
          id |-> extract_id(parent_key, flat),
          lat |-> ll[1],
          lon |-> ll[2],
          alt_m |-> extract_alt_m(flat),
          time_iso |-> TimeOrApprox(parse_time_to_iso(flat), nowHour, source_hour),
          source_hour |-> source_hour,
          raw_index |-> raw_index]

StandardizeFlat(parent_key, flat, source_hour, raw_index, nowHour) ==
    Standardize(parent_key, flat, extract_lat_lon(flat), source_hour, raw_index, nowHour)

standardize_record(parent_key, rec, source_hour, raw_index, nowHour) ==
    StandardizeFlat(parent_key, flatten_dict(rec), source_hour, raw_index, nowHour)

\* the dedup key of line 388
DedupKey(s) == <<s.id, s.time_iso, round6(s.lat), round6(s.lon)>>

\* == on two keys, as the set of seen keys compares them: a nan equals nothing
KeyEq(a, b) == a[1] = b[1] /\ a[2] = b[2] /\ PyNumEq(a[3], b[3]) /\ PyNumEq(a[4], b[4])

\* lines 385-392 for one standardized s: it is kept unless it is None or
\* its key has been seen
Keep(acc, s) ==
    IF s # None /\ ~\E k \in acc[2] : KeyEq(k, DedupKey(s))
    THEN <<Append(acc[1], s), acc[2] \cup {DedupKey(s)}>>
    ELSE acc

\* the inner loop of build_records over one hour's raw records, from index
\* idx (from 1 here, raw_index being idx - 1); acc is <<standardized, seen>>
RECURSIVE BuildHour(_, _, _, _, _)
BuildHour(raws, idx, hour, nowHour, acc) ==
    IF idx > Len(raws) THEN acc
    ELSE BuildHour(raws, idx + 1, hour, nowHour,
                   Keep(acc, standardize_record(raws[idx][1], raws[idx][2], hour,
                                                idx - 1, nowHour)))

RECURSIVE BuildLoop(_, _, _)
BuildLoop(fetched, nowHour, acc) ==
    IF fetched = <<>> THEN acc
    ELSE BuildLoop(Tail(fetched), nowHour,
                   BuildHour(enumerate_records(Head(fetched)[2]), 1, Head(fetched)[1],
                             nowHour, acc))

\* build_records(fetched): fetched a sequence of <<hour, data>>
build_records(fetched, nowHour) == BuildLoop(fetched, nowHour, <<<<>>, {}>>)[1]

----------------------------------------------------------------------------
(* try_json_loads *)

\* A response text is given by what each parser makes of it: json.loads
\* of the text, json5.loads of the text, json5.loads of the repaired text,
\* each a value or Fail (it raises), and try_extract_json_fragment of the
\* repaired text, a value or None.
Text(strict, json5, repaired, fragment) ==
    [strict |-> strict, json5 |-> json5, repaired |-> repaired, fragment |-> fragment]

try_json_loads(text) ==
    IF text.strict # Fail THEN text.strict
    ELSE IF text.json5 # Fail THEN text.json5
    ELSE IF text.repaired # Fail THEN text.repaired
    ELSE text.fragment

----------------------------------------------------------------------------
(* The feed of the run *)

obs_a1 == Dict(<< <<<<"i", "d">>, Str(<<"b", "1">>)>>,
                  <<<<"l", "a", "t">>, Float(101234561, -7)>>,
                  <<<<"l", "o", "n">>, PyInt(2, 1)>>,
                  <<<<"t", "s">>, PyInt(17, 8)>> >>)
obs_a2 == Dict(<< <<<<"i", "d">>, Str(<<"b", "1">>)>>,
                  <<<<"l", "a", "t">>, Float(101234564, -7)>>,
                  <<<<"l", "o", "n">>, Float(200000001, -7)>>,
                  <<<<"t", "s">>, Str(<<"1", "7", "0", "0", "0", "0", "0", "0", "0", "0">>)>> >>)
obs_nan == Dict(<< <<<<"l", "a", "t">>, NaN>>,
                   <<<<"l", "o", "n">>, PyInt(2, 0)>>,
                   <<<<"t", "s">>, PyInt(17, 8)>> >>)
obs_b1 == Dict(<< <<<<"l", "a", "t">>, Float(101234559, -7)>>,
                  <<<<"l", "o", "n">>, PyInt(2, 1)>>,
                  <<<<"t", "i", "m", "e">>, PyInt(17, 11)>> >>)
obs_b2 == Dict(<< <<<<"l", "a", "t">>, PyInt(-5, 0)>>, <<<<"l", "o", "n">>, PyInt(6, 0)>> >>)

DataA == List(<<obs_a1, obs_a2, obs_nan, obs_nan>>)
DataB == Dict(<< <<<<"b", "1">>, obs_b1>>, <<<<"b", "2">>, obs_b2>> >>)

\* the texts an hour's endpoint answers with: "A" is strict JSON, "B" has a
\* trailing comma that only json5 reads, "C" is read by no parser
TextOf(name) ==
    CASE name = "A" -> Text(DataA, DataA, DataA, DataA)
      [] name = "B" -> Text(Fail, DataB, DataB, DataB)
      [] name = "C" -> Text(Fail, Fail, Fail, None)

TextNames == {"A", "B", "C"}
\* what a request ends with: the text of a 2xx response, a status that
\* raise_for_status rejects, or a timeout
Responses == TextNames \cup {"status", "timeout"}

----------------------------------------------------------------------------
(* The inputs of the function calls *)

\* the fields of a raw record that give its latitude, its longitude and
\* its altitude; a raw record takes one of each
LatOpts ==
    { <<>>,
      << <<<<"l", "a", "t">>, PyInt(45, 0)>> >>,
      << <<<<"l", "a", "t">>, PyInt(95, 0)>> >>,
      << <<<<"l", "a", "t">>, NaN>> >>,
      << <<<<"l", "a", "t", "_", "e", "7">>, PyInt(451234567, 0)>>,
         <<<<"l", "a", "t">>, PyInt(1, 1)>> >>,
      << <<<<"l", "a", "t", "_", "e", "7">>, PyInt(1, 400)>>, <<<<"l", "a", "t">>, PyInt(1, 1)>> >>,
      << <<<<"l", "a", "t", "_", "e", "7">>, PyInt(95, 7)>>, <<<<"l", "a", "t">>, PyInt(1, 1)>> >>,
      << <<<<"L", "a", "t", "i", "t", "u", "d", "e">>, Str(<<"-", "4", "5", ".", "5", " ", "S">>)>> >>,
      << <<<<"l", "a", "t">>, None>>, <<<<"g", "p", "s", "_", "l", "a", "t">>, PyInt(-9, 1)>> >>,
      << <<<<"l", "a", "t", "_", "e", "7">>, PyTrue>>, <<<<"l", "a", "t">>, PyInt(1, 0)>> >>,
      << <<<<"p", "o", "s", "i", "t", "i", "o", "n">>, Dict(<< <<<<"l", "a", "t">>, Float(123456785, -7)>> >>)>> >> }

LonOpts ==
    { <<>>,
      << <<<<"l", "o", "n">>, Float(1705, -1)>> >>,
      << <<<<"l", "n", "g">>, PyInt(-181, 0)>> >>,
      << <<<<"l", "o", "n">>, NaN>> >>,
      << <<<<"l", "o", "n", "_", "e", "7">>, PyInt(18, 8)>>, <<<<"l", "o", "n">>, PyInt(5, 0)>> >>,
      << <<<<"l", "n", "g", "_", "e", "7">>, PyInt(-1234567, 0)>>,
         <<<<"l", "o", "n">>, PyInt(5, 0)>> >>,
      << <<<<"l", "o", "n", "_", "e", "7">>, PyInt(1, 400)>>,
         <<<<"l", "o", "n", "g", "i", "t", "u", "d", "e">>, PyInt(5, 0)>> >>,
      << <<<<"l", "o", "n">>, Str(<<"x">>)>> >> }

AltOpts ==
    { <<>>,
      << <<<<"a", "l", "t", "_", "k", "m">>, Float(15, -1)>> >>,
      << <<<<"a", "l", "t", "_", "f", "t">>, PyInt(1, 3)>> >>,
      << <<<<"A", "l", "t", "i", "t", "u", "d", "e">>, PyInt(12, 1)>> >>,
      << <<<<"a", "l", "t">>, Str(<<"5", " ", "k", "m">>)>> >>,
      << <<<<"a", "l", "t", "_", "k", "m">>, Str(<<"n", "/", "a">>)>>,
         <<<<"a", "l", "t", "_", "f", "t">>, PyInt(1, 2)>> >>,
      << <<<<"n", "o", "t", "e">>, Str(<<"2", " ", "m">>)>> >>,
      << <<<<"n", "o", "t", "e">>, Str(<<"8", " ", "m", "e", "t", "e", "r">>)>> >>,
      << <<<<"n", "o", "t", "e">>, Str(<<"3", " ", "m", "e", "t", "e", "r", "s">>)>> >>,
      << <<<<"n", "o", "t", "e">>, Str(<<"5", " ", "k", "m">>)>> >>,
      << <<<<"n", "o", "t", "e">>, Str(<<"7", " ", "k", "i", "l", "o", "m", "e", "t", "e", "r">>)>> >>,
      << <<<<"n", "o", "t", "e">>, Str(<<"5", " ", "k", "i", "l", "o", "m", "e", "t", "e", "r", "s">>)>> >>,
      << <<<<"n", "o", "t", "e">>, Str(<<"1", "2", " ", "F", "T">>)>> >>,
      << <<<<"n", "o", "t", "e">>, Str(<<"4", " ", "f", "e", "e", "t">>)>> >>,
      << <<<<"n", "o", "t", "e">>, Str(<<"6", " ", "k", "m", "h">>)>>,
         <<<<"h">>, Str(<<"9", " ", "f", "t">>)>> >>,
      << <<<<"n", "o", "t", "e">>, Str(<<"h", "i", "g", "h">>)>>,
         <<<<"i", "d">>, PyInt(7, 0)>>,
         <<<<"t", "s">>, PyInt(17, 8)>> >> }

rec_b1 == Dict(<< <<<<"i", "d">>, Str(<<"b", "1">>)>>,
                  <<<<"l", "a", "t">>, PyInt(1, 0)>>,
                  <<<<"l", "o", "n">>, PyInt(2, 0)>> >>)
rec_ft == Dict(<< <<<<"l", "a", "t">>, PyInt(3, 0)>>,
                  <<<<"l", "o", "n">>, PyInt(4, 0)>>,
                  <<<<"a", "l", "t", "_", "f", "t">>, PyInt(1, 3)>> >>)
rec_b3 == Dict(<< <<<<"n", "a", "m", "e">>, Str(<<"b", "3">>)>>,
                  <<<<"l", "a", "t">>, Str(<<"5">>)>>,
                  <<<<"l", "o", "n">>, Str(<<"6">>)>> >>)

Payloads ==
    { None,
      PyInt(5, 0),
      Str(<<"t", "e", "x", "t">>),
      PyTrue,
      List(<<>>),
      List(<<rec_b1, rec_ft>>),
      List(<<rec_b1, PyInt(7, 0), List(<<PyInt(1, 0), PyInt(2, 0)>>), rec_ft>>),
      List(<<List(<<PyInt(1, 0), PyInt(2, 0)>>),
             List(<<PyInt(3, 0), PyInt(4, 0), PyInt(5, 0)>>),
             List(<<Str(<<"n", "a", "n">>), PyInt(2, 0)>>),
             List(<<Str(<<"x">>), PyInt(1, 0)>>),
             List(<<PyInt(1, 0)>>),
             None,
             List(<<PyInt(1, 0), PyInt(2, 0), None>>),
             List(<<PyInt(1, 0), PyInt(2, 0), Str(<<"a", "b", "c">>)>>),
             List(<<PyTrue, Str(<<"2", ".", "5">>), Str(<<"7">>)>>),
             List(<<PyInt(1, 400), PyInt(1, 0)>>)>>),
      Dict(<< <<<<"d", "a", "t", "a">>, List(<<rec_b1, rec_ft>>)>>,
              <<<<"m", "e", "t", "a">>, Dict(<< <<<<"n">>, PyInt(2, 0)>> >>)>> >>),
      Dict(<< <<<<"a">>, List(<<rec_b1>>)>>, <<<<"b">>, List(<<rec_ft, rec_b3>>)>> >>),
      Dict(<< <<<<"a">>, List(<<rec_b1>>)>>, <<<<"b">>, List(<<rec_ft>>)>> >>),
      Dict(<< <<<<"a">>, List(<<>>)>>, <<<<"b">>, PyInt(5, 0)>> >>),
      Dict(<< <<<<"a">>, List(<<>>)>>, <<<<"b">>, List(<<rec_b1>>)>> >>),
      Dict(<< <<<<"a">>, List(<<rec_b1>>)>>, <<<<"b">>, List(<<rec_ft, PyInt(7, 0)>>)>> >>),
      Dict(<< <<<<"b">>, List(<<rec_ft, PyInt(7, 0)>>)>>,
              <<<<"m", "e", "t", "a">>, PyInt(1, 0)>> >>),
      Dict(<< <<<<"b", "1">>, rec_b1>>, <<<<"b", "2">>, rec_ft>> >>),
      Dict(<< <<<<"b", "1">>, rec_b1>>, <<<<"n">>, PyInt(2, 0)>> >>),
      Dict(<<>>),
      Dict(<< <<<<"x">>, List(<<PyInt(1, 0), PyInt(2, 0)>>)>> >>),
      Dict(<< <<<<"x">>, List(<<List(<<PyInt(1, 0), PyInt(2, 0)>>)>>)>>,
              <<<<"y">>, List(<<rec_b1>>)>> >>) }

Records == {Dict(a \o b \o c) : a \in LatOpts, b \in LonOpts, c \in AltOpts}

\* flat records as extract_lat_lon may be handed them: those flatten_dict
\* makes of the raw records, and flat records with an lnge7 key
DirectFlats ==
    { << <<K_LAT, PyInt(1, 0)>>, <<K_LONE7, PyInt(1, 8)>>, <<K_LNGE7, PyTrue>>,
         <<K_LON, PyInt(5, 0)>> >>,
      << <<K_LAT, PyInt(1, 0)>>, <<K_LONE7, PyInt(1, 8)>>, <<K_LNGE7, PyInt(2, 8)>> >>,
      << <<K_LAT, PyInt(1, 0)>>, <<K_LNGE7, PyInt(-3, 8)>>, <<K_LON, PyInt(5, 0)>> >>,
      << <<K_LAT, PyInt(1, 0)>>, <<K_LONE7, PyInt(1, 8)>>, <<K_LNGE7, Str(<<"x">>)>> >> }
Flats == {Dict(flatten_dict(r)) : r \in Records} \cup {Dict(f) : f \in DirectFlats}

\* a tuple a function returns
Tuple(items) == [t |-> "tuple", items |-> items]

\* the wall clock of the run, in whole hours since the epoch
Clock == {472223}

MaxHours == 2
MaxK == 2
HoursCap == 24

----------------------------------------------------------------------------
(* State *)

VARIABLES
    argHours,         \* --hours
    max_concurrency,  \* --max-concurrency
    save_raw,         \* --save-raw
    resp,             \* hour -> what its request ends with
    nowHour,          \* the clock
    phase,            \* "start", "gather", "fetched", "exited"; "idle" outside a run
    hours,            \* main's hours
    sema,             \* the semaphore's value
    task,             \* hour -> "waiting", "inflight", "closing", "done"
    results,          \* fetch_all's results
    errors,           \* fetch_all's errors
    raw_files,        \* the raw archive: the set of <<hour, text>> written
    records,          \* main's records
    ndjson,           \* constellation.ndjson, None before it is written
    csv,              \* constellation.csv, None before it is written
    status,           \* the exit status, -1 while running
    arg,              \* a function call: its argument,
    call,             \* the function called ("none" before)
    ret               \* and what it returned

runVars == <<argHours, max_concurrency, save_raw, resp, nowHour, phase, hours, sema, task,
             results, errors, raw_files, records, ndjson, csv, status>>
fnVars == <<arg, call, ret>>
vars == <<runVars, fnVars>>

----------------------------------------------------------------------------
(* main, fetch_all, fetch_one, write_outputs *)

\* max(1, min(24, args.hours))
ClampHours(h) == Max(1, Min(HoursCap, h))

\* list.sort(key=lambda x: x[0]): a stable insertion by hour
RECURSIVE InsertByHour(_, _)
InsertByHour(sorted, x) ==
    IF sorted = <<>> THEN <<x>>
    ELSE IF x[1] < Head(sorted)[1] THEN <<x>> \o sorted
    ELSE <<Head(sorted)>> \o InsertByHour(Tail(sorted), x)
RECURSIVE SortByHour(_)
SortByHour(xs) ==
    IF xs = <<>> THEN <<>> ELSE InsertByHour(SortByHour(SubSeq(xs, 1, Len(xs) - 1)), xs[Len(xs)])

\* a written file, by its lines
File(lines) == [t |-> "file", lines |-> lines]

\* the row write_outputs writes for a record, in the header's order
CsvHeader == <<"id", "time_iso", "lat", "lon", "alt_m", "source_hour", "raw_index">>
CsvRow(rec) == <<rec.id, rec.time_iso, rec.lat, rec.lon, rec.alt_m, rec.source_hour, rec.raw_index>>

\* fetch_one(client, hour, timeout, save_raw_dir) once the request has ended
\* with r: <<hour, data, err>>.  archived tells whether the archive file
\* could be written; it is read only when the archive is on.
fetch_one(hour, r, archive, archived) ==
    IF r = "timeout" THEN <<hour, None, "ReadTimeout">>
    ELSE IF r = "status" THEN <<hour, None, "HTTPStatusError">>
    ELSE IF archive /\ ~archived THEN <<hour, None, "OSError">>
    ELSE <<hour, try_json_loads(TextOf(r)), "">>

\* main up to asyncio.run(fetch_all(...)), and fetch_all up to gather: the
\* hours are clamped, the semaphore is made (a negative value raises
\* ValueError, which nothing catches: the process ends with status 1) and
\* one task per hour is created
MainStart ==
    /\ phase = "start"
    /\ hours' = ClampHours(argHours)
    /\ IF max_concurrency < 0
       THEN /\ phase' = "exited"
            /\ status' = 1
            /\ UNCHANGED <<sema, task>>
       ELSE /\ phase' = "gather"
            /\ sema' = max_concurrency
            /\ task' = [h \in 0..(ClampHours(argHours) - 1) |-> "waiting"]
            /\ UNCHANGED status
    /\ UNCHANGED <<argHours, max_concurrency, save_raw, resp, nowHour, results, errors,
                   raw_files, records, ndjson, csv, fnVars>>

\* Acquire without the wait for the semaphore: every task starts its
\* request at once
AcquireUnbounded(h) ==
    /\ phase = "gather"
    /\ task[h] = "waiting"
    /\ sema' = sema - 1
    /\ task' = [task EXCEPT ![h] = "inflight"]
    /\ UNCHANGED <<argHours, max_concurrency, save_raw, resp, nowHour, phase, hours,
                   results, errors, raw_files, records, ndjson, csv, status, fnVars>>

\* task(hour): the semaphore is acquired, the client opened and the request sent
Acquire(h) ==
    /\ phase = "gather"
    /\ task[h] = "waiting"
    /\ sema > 0
    /\ sema' = sema - 1
    /\ task' = [task EXCEPT ![h] = "inflight"]
    /\ UNCHANGED <<argHours, max_concurrency, save_raw, resp, nowHour, phase, hours,
                   results, errors, raw_files, records, ndjson, csv, status, fnVars>>

\* Collect where a failed hour is recorded nowhere
CollectSuccessOnly(out) ==
    IF out[3] = "" /\ out[2] # None
    THEN /\ results' = Append(results, <<out[1], out[2]>>)
         /\ UNCHANGED errors
    ELSE UNCHANGED <<results, errors>>

\* lines 345-348: what fetch_one returned goes to results or to errors
Collect(out) ==
    IF out[3] = "" /\ out[2] # None
    THEN /\ results' = Append(results, <<out[1], out[2]>>)
         /\ UNCHANGED errors
    ELSE /\ errors' = Append(errors, <<out[1], IF out[3] # "" THEN out[3]
                                               ELSE "unknown error">>)
         /\ UNCHANGED results

\* task(hour): the request ends, fetch_one returns and its outcome is appended
Complete(h) ==
    /\ phase = "gather"
    /\ task[h] = "inflight"
    /\ \E archived \in BOOLEAN :
          /\ raw_files' = IF resp[h] \in TextNames /\ save_raw /\ archived
                          THEN raw_files \cup {<<h, resp[h]>>}
                          ELSE raw_files
          /\ Collect(fetch_one(h, resp[h], save_raw, archived))
    /\ task' = [task EXCEPT ![h] = "closing"]
    /\ UNCHANGED <<argHours, max_concurrency, save_raw, resp, nowHour, phase, hours, sema,
                   records, ndjson, csv, status, fnVars>>

\* task(hour): the client is closed and the semaphore released
Release(h) ==
    /\ phase = "gather"
    /\ task[h] = "closing"
    /\ sema' = sema + 1
    /\ task' = [task EXCEPT ![h] = "done"]
    /\ UNCHANGED <<argHours, max_concurrency, save_raw, resp, nowHour, phase, hours,
                   results, errors, raw_files, records, ndjson, csv, status, fnVars>>

\* FetchAllReturn without the two sorts: the lists stay in completion order
FetchAllReturnUnsorted ==
    /\ phase = "gather"
    /\ \A h \in DOMAIN task : task[h] = "done"
    /\ phase' = "fetched"
    /\ UNCHANGED <<argHours, max_concurrency, save_raw, resp, nowHour, hours, sema, task,
                   results, errors, raw_files, records, ndjson, csv, status, fnVars>>

\* fetch_all after gather: both lists are sorted by hour and returned
FetchAllReturn ==
    /\ phase = "gather"
    /\ \A h \in DOMAIN task : task[h] = "done"
    /\ results' = SortByHour(results)
    /\ errors' = SortByHour(errors)
    /\ phase' = "fetched"
    /\ UNCHANGED <<argHours, max_concurrency, save_raw, resp, nowHour, hours, sema, task,
                   raw_files, records, ndjson, csv, status, fnVars>>

\* records = build_records(fetched), then write_outputs(records, out_dir):
\* both files are written
write_outputs(recs) ==
    /\ records' = recs
    /\ ndjson' = File(recs)
    /\ csv' = File(<<CsvHeader>> \o [i \in 1..Len(recs) |-> CsvRow(recs[i])])

\* main after fetch_all: build_records, write_outputs, return 0
MainFinish ==
    /\ phase = "fetched"
    /\ write_outputs(build_records(results, nowHour))
    /\ status' = 0
    /\ phase' = "exited"
    /\ UNCHANGED <<argHours, max_concurrency, save_raw, resp, nowHour, hours, sema, task,
                   results, errors, raw_files, fnVars>>

FnIdle == arg = None /\ call = "none" /\ ret = None

Init ==
    /\ argHours \in 0..MaxHours
    /\ max_concurrency \in (-1)..MaxK
    /\ save_raw \in BOOLEAN
    /\ resp \in [0..(ClampHours(argHours) - 1) -> Responses]
    /\ nowHour \in Clock
    /\ phase = "start"
    /\ hours = 0
    /\ sema = 0
    /\ task = <<>>
    /\ results = <<>>
    /\ errors = <<>>
    /\ raw_files = {}
    /\ records = <<>>
    /\ ndjson = None
    /\ csv = None
    /\ status = -1
    /\ FnIdle

\* a step of fetch_all: of one of its tasks, or its return
FetchAllStep ==
    \/ \E h \in DOMAIN task : Acquire(h)
    \/ \E h \in DOMAIN task : Complete(h)
    \/ \E h \in DOMAIN task : Release(h)
    \/ FetchAllReturn

Next ==
    \/ MainStart
    \/ FetchAllStep
    \/ MainFinish

Spec == Init /\ [][Next]_vars

----------------------------------------------------------------------------
(* Calls of single functions *)

RunIdle ==
    /\ argHours = 0
    /\ max_concurrency = 0
    /\ save_raw = FALSE
    /\ resp = <<>>
    /\ phase = "idle"
    /\ hours = 0
    /\ sema = 0
    /\ task = <<>>
    /\ results = <<>>
    /\ errors = <<>>
    /\ raw_files = {}
    /\ records = <<>>
    /\ ndjson = None
    /\ csv = None
    /\ status = -1

InitFn ==
    /\ RunIdle
    /\ nowHour \in Clock
    /\ arg \in Payloads \cup Records \cup Flats
    /\ call = "none"
    /\ ret = None

\* list(enumerate_records(arg)) for a decoded payload
CallEnumerate ==
    /\ call = "none"
    /\ arg \in Payloads
    /\ call' = "enumerate_records"
    /\ ret' = List(enumerate_records(arg))
    /\ UNCHANGED <<runVars, arg>>

\* extract_lat_lon(arg) for a flat record
CallExtractLatLon ==
    /\ call = "none"
    /\ arg \in Flats
    /\ call' = "extract_lat_lon"
    /\ ret' = Tuple(extract_lat_lon(arg.kv))
    /\ UNCHANGED <<runVars, arg>>

\* standardize_record(None, arg, 0, 0) for a raw record
CallStandardize ==
    /\ call = "none"
    /\ arg \in Records
    /\ call' = "standardize_record"
    /\ ret' = standardize_record(None, arg, 0, 0, nowHour)
    /\ UNCHANGED <<runVars, arg>>

NextFn ==
    \/ CallEnumerate
    \/ CallExtractLatLon
    \/ CallStandardize

SpecFn == InitFn /\ [][NextFn]_vars

----------------------------------------------------------------------------
(* Properties of the run *)

\* the hours whose request has been started and has not ended
InFlight == {h \in DOMAIN task : task[h] = "inflight"}

\* fetch_all has returned
Fetched == phase = "fetched" \/ (phase = "exited" /\ status = 0)

\* main has returned
Finished == phase = "exited" /\ status = 0

\* C1: while fetch_all gathers its tasks, the number of hours whose request
\* has been started and has not yet ended is at most the configured maximum
\* concurrency, whatever the interleaving of the tasks.
C1_AtMostKInFlight == phase = "gather" => Cardinality(InFlight) <= max_concurrency

\* the bound is met: as many requests as allowed are in flight and a task waits
C1_Saturated ==
    /\ phase = "gather"
    /\ max_concurrency >= 1
    /\ Cardinality(InFlight) = max_concurrency
    /\ \E h \in DOMAIN task : task[h] = "waiting"

\* how often hour h is in the results and in the errors
Occurrences(h) ==
    Cardinality({i \in DOMAIN results : results[i][1] = h})
    + Cardinality({i \in DOMAIN errors : errors[i][1] = h})

\* try_json_loads of the text hour h answered with
Decoded(h) == try_json_loads(TextOf(resp[h]))

\* C2: when fetch_all has returned, every hour of [0, hours) is exactly once
\* in the results or in the errors, whatever the other hours ended with; an
\* hour in the results answered with a text that decoded to the data listed
\* with it, and no record built downstream comes from an hour in the errors.
C2_FailureIsolation ==
    Fetched =>
        /\ \A h \in 0..(hours - 1) : Occurrences(h) = 1
        /\ \A i \in DOMAIN results :
              /\ results[i][1] \in 0..(hours - 1)
              /\ resp[results[i][1]] \in TextNames
              /\ results[i][2] # None
              /\ results[i][2] = Decoded(results[i][1])
        /\ \A i \in DOMAIN errors : errors[i][1] \in 0..(hours - 1)
        /\ \A i \in DOMAIN records : \A j \in DOMAIN errors :
              records[i].source_hour # errors[j][1]

\* a run where an hour failed, another succeeded and gave records
C2_MixedRun ==
    /\ Finished
    /\ errors # <<>>
    /\ results # <<>>
    /\ records # <<>>

\* the hours in the results
ResultHours == {results[i][1] : i \in DOMAIN results}

\* the hours whose answer is a text that decodes
DecodableHours == {h \in 0..(hours - 1) : resp[h] \in TextNames /\ Decoded(h) # None}

MinOf(S) == CHOOSE x \in S : \A y \in S : x <= y
\* the elements of a set of hours in ascending order
RECURSIVE InHourOrder(_)
InHourOrder(S) == IF S = {} THEN <<>> ELSE <<MinOf(S)>> \o InHourOrder(S \ {MinOf(S)})

\* the decoded data of the hours of S, by hour ascending
DataInHourOrder(S) ==
    [i \in 1..Cardinality(S) |-> <<InHourOrder(S)[i], Decoded(InHourOrder(S)[i])>>]

\* (source_hour, raw_index) of a before that of b
Before(a, b) ==
    \/ a.source_hour < b.source_hour
    \/ (a.source_hour = b.source_hour /\ a.raw_index < b.raw_index)

\* C3: the outcome does not depend on the order in which the fetches
\* complete: the results fetch_all returns are the decoded data of the
\* successful hours by hour ascending (without the archive, the successful
\* hours are those whose answer decodes), the records are what
\* build_records makes of that list, and they are strictly ascending in
\* (source_hour, raw_index).
C3_DeterministicOrder ==
    /\ Fetched =>
          /\ results = DataInHourOrder(ResultHours)
          /\ (~save_raw => ResultHours = DecodableHours)
    /\ Finished =>
          /\ records = build_records(DataInHourOrder(ResultHours), nowHour)
          /\ \A i, j \in DOMAIN records : i < j => Before(records[i], records[j])

\* a finished run with records from two hours at least
C3_TwoHoursMerged ==
    /\ Finished
    /\ Cardinality(ResultHours) >= 2
    /\ \E i, j \in DOMAIN records : records[i].source_hour # records[j].source_hour

\* the candidate records of the run: what standardize_record makes of the
\* idx-th raw record of the i-th result
CandidateAt(i, idx) ==
    standardize_record(enumerate_records(results[i][2])[idx][1],
                       enumerate_records(results[i][2])[idx][2],
                       results[i][1], idx - 1, nowHour)

\* a is b, or is before b
NotAfter(a, b) == a = b \/ Before(a, b)

\* C4: after build_records no two retained records have the same dedup key
\* (id, time, latitude and longitude rounded to 6 decimals), and every
\* candidate is retained or has its key on a retained record before it.
C4_UniqueKeys ==
    Finished =>
        /\ \A i, j \in DOMAIN records :
              i # j => DedupKey(records[i]) # DedupKey(records[j])
        /\ \A i \in DOMAIN results : \A idx \in DOMAIN enumerate_records(results[i][2]) :
              CandidateAt(i, idx) # None =>
                 \E k \in DOMAIN records :
                    /\ DedupKey(records[k]) = DedupKey(CandidateAt(i, idx))
                    /\ NotAfter(records[k], CandidateAt(i, idx))

\* two retained records with one dedup key
C4_SharedKeyRetained ==
    /\ Finished
    /\ \E i, j \in DOMAIN records : i < j /\ DedupKey(records[i]) = DedupKey(records[j])

\* x is a number within lo..hi
Within(x, lo, hi) ==
    /\ x.t = "float"
    /\ ~NumLt(x, Float(lo, 0))
    /\ ~NumLt(Float(hi, 0), x)

\* C5: every record of the output has a latitude within [-90, 90] and a
\* longitude within [-180, 180].
C5_CoordinatesInRange ==
    \A i \in DOMAIN records :
        /\ Within(records[i].lat, -90, 90)
        /\ Within(records[i].lon, -180, 180)

\* a record of the output whose latitude is not a number
C5_NanEmitted == \E i \in DOMAIN records : records[i].lat = NaN

\* C6: for every --hours and every --max-concurrency the parser accepts the
\* run finishes: main starts fetch_all, fetch_all can take a step until it
\* returns (after it main runs on to its end without a wait), and when the
\* process has ended every hour has been attempted, both files are written
\* and the status is 0.
C6_RunFinishes ==
    /\ phase = "start" => ENABLED MainStart
    /\ phase = "gather" => ENABLED FetchAllStep
    /\ phase = "exited" =>
          /\ status = 0
          /\ \A h \in 0..(hours - 1) : h \in DOMAIN task /\ task[h] = "done"
          /\ ndjson # None
          /\ csv # None
          /\ (results = <<>> => ndjson = File(<<>>) /\ csv = File(<<CsvHeader>>))

\* fetch_all with a semaphore of 0: every task waits and none can start
C6_Stuck ==
    /\ phase = "gather"
    /\ max_concurrency = 0
    /\ \A h \in DOMAIN task : task[h] = "waiting"
    /\ ~ENABLED FetchAllStep

\* fetch_one of hour h without the archive
ArchiveOff(h) == fetch_one(h, resp[h], FALSE, FALSE)

\* C9: the results and the errors fetch_all returns are those of the same
\* responses without the archive, the archive on or off and its files
\* written or not.
C9_ArchiveIndependent ==
    Fetched =>
        /\ \A i \in DOMAIN results :
              /\ ArchiveOff(results[i][1])[3] = ""
              /\ ArchiveOff(results[i][1])[2] = results[i][2]
        /\ \A i \in DOMAIN errors :
              \/ ArchiveOff(errors[i][1])[3] = errors[i][2]
              \/ /\ ArchiveOff(errors[i][1])[3] = ""
                 /\ ArchiveOff(errors[i][1])[2] = None
                 /\ errors[i][2] = "unknown error"

\* an hour whose text decodes is in the errors, its archive file not written
C9_ArchiveFailureIsError ==
    /\ Fetched
    /\ save_raw
    /\ \E i \in DOMAIN errors :
          /\ errors[i][2] = "OSError"
          /\ errors[i][1] \in DecodableHours

----------------------------------------------------------------------------
(* Properties of the functions *)

\* the conversion the claim gives each unit token
ClaimedConvert(num, unit) ==
    CASE unit \in {<<"k", "m">>, <<"k", "i", "l", "o", "m", "e", "t", "e", "r">>,
                   <<"k", "i", "l", "o", "m", "e", "t", "e", "r", "s">>} -> FloatScale(num, 3)
      [] unit \in {<<"m">>, <<"m", "e", "t", "e", "r">>, <<"m", "e", "t", "e", "r", "s">>} -> num
      [] unit \in {<<"f", "t">>, <<"f", "e", "e", "t">>} -> feet_to_meters(num)

ClaimedMatchAlt(mt) == IF mt = <<>> THEN None ELSE ClaimedConvert(mt[1], mt[2])

\* the altitude in meters by the rule that resolves it: the kilometers
\* field, the first meters field, the first feet field, the first text with
\* a number and a unit token
ClaimedAlt(flat) ==
    IF Present(flat, K_ALTKM) /\ coerce_float(Get(flat, K_ALTKM)) # None
    THEN FloatScale(coerce_float(Get(flat, K_ALTKM)), 3)
    ELSE IF FirstConvertible(flat, meter_keys) # <<>>
    THEN coerce_float(Get(flat, FirstConvertible(flat, meter_keys)))
    ELSE IF FirstConvertible(flat, feet_keys) # <<>>
    THEN feet_to_meters(coerce_float(Get(flat, FirstConvertible(flat, feet_keys))))
    ELSE ClaimedMatchAlt(FirstUnitMatch(flat))

\* C7: the altitude of an emitted record is the source number in meters by
\* the unit of the rule that resolved it: times 1000 for kilometers (the
\* kilometers field, or a text with km, kilometer or kilometers), unchanged
\* for meters (a meters field, or m, meter or meters), times 0.3048 for feet
\* (a feet field, or ft or feet).
C7_AltitudeInMeters ==
    call = "standardize_record" /\ ret # None => ret.alt_m = ClaimedAlt(flatten_dict(arg))

\* a record whose altitude comes from a text in kilometer or kilometers and
\* is not the number times 1000
C7_KilometersAsFeet ==
    /\ call = "standardize_record"
    /\ ret # None
    /\ ClaimedAlt(flatten_dict(arg)) # None
    /\ FirstUnitMatch(flatten_dict(arg)) # <<>>
    /\ ret.alt_m = feet_to_meters(FirstUnitMatch(flatten_dict(arg))[1])
    /\ ClaimedAlt(flatten_dict(arg)) = FloatScale(FirstUnitMatch(flatten_dict(arg))[1], 3)

\* flat has a non-null numeric field k
NumericField(flat, k) == Present(flat, k) /\ IsNumber(Get(flat, k))

\* the value of an E7 field divided by 10,000,000
E7Claimed(v) == Float(v.m, v.e - 7)

\* C8: in extract_lat_lon, an axis whose E7 field (late7; lone7 or lnge7) is
\* present, non-null and numeric resolves to that value divided by
\* 10,000,000, whatever plain-named field is present, and the range check
\* is applied to it.
C8_E7Precedence ==
    call = "extract_lat_lon" =>
        /\ NumericField(arg.kv, K_LATE7) =>
              ret.items[1] = CheckLat(E7Claimed(Get(arg.kv, K_LATE7)))
        /\ NumericField(arg.kv, K_LONE7) \/ NumericField(arg.kv, K_LNGE7) =>
              \E k \in {K_LONE7, K_LNGE7} :
                 /\ NumericField(arg.kv, k)
                 /\ ret.items[2] = CheckLon(E7Claimed(Get(arg.kv, k)))

\* a numeric late7 is present and the latitude returned is the plain lat
C8_PlainLatWins ==
    /\ call = "extract_lat_lon"
    /\ NumericField(arg.kv, K_LATE7)
    /\ Present(arg.kv, K_LAT)
    /\ ret.items[1] # None
    /\ ret.items[1] = coerce_float(Get(arg.kv, K_LAT))
    /\ ret.items[1] # CheckLat(E7Claimed(Get(arg.kv, K_LATE7)))

\* v is an empty list or a list of objects
IsListOfObjects(v) == v.t = "list" /\ \A i \in DOMAIN v.items : v.items[i].t = "dict"

\* the values of an object in key order
Values(obj) == [i \in DOMAIN obj.kv |-> obj.kv[i][2]]

\* the raw records of a decoded object or null by the stated rules
ClaimedRecords(obj) ==
    IF obj.t = "null" THEN <<>>
    ELSE IF SelectSeq(Values(obj), IsListOfObjects) # <<>>
    THEN YieldAll(LongestFirst(SelectSeq(Values(obj), IsListOfObjects)))
    ELSE IF \A i \in DOMAIN obj.kv : obj.kv[i][2].t = "dict"
    THEN [i \in 1..Len(obj.kv) |-> <<Str(obj.kv[i][1]), obj.kv[i][2]>>]
    ELSE << <<None, obj>> >>

\* C10: for a decoded object enumerate_records yields the elements of the
\* longest value that is an empty list or a list of objects (the first on a
\* tie), each without parent key; if there is none and all values are
\* objects, one raw record per key with the key as parent key; otherwise the
\* object itself; for null it yields nothing.
C10_ObjectRules ==
    call = "enumerate_records" /\ arg.t \in {"dict", "null"} =>
        ret.items = ClaimedRecords(arg)

\* a raw record that is no object is yielded for an object
C10_NonObjectYielded ==
    /\ call = "enumerate_records"
    /\ arg.t = "dict"
    /\ \E i \in DOMAIN ret.items : ret.items[i][2].t # "dict"

====
